---- MODULE Spec2Model ----
(***************************************************************************)
(* Model of trading_bot.py: the logger, the BasicBot facade over the       *)
(* exchange client, validate_input and the command loop of main.           *)
(*                                                                         *)
(* Text is a sequence of one-character strings, so that strip(), upper(),  *)
(* float() and the substring test of the menu prompt are computed.         *)
(***************************************************************************)
EXTENDS Integers, Sequences, FiniteSets, TLC

VARIABLES
    pc,         \* where main is: "init", "balance", a prompt, "call", "done"
    choice,     \* main's local `choice` (the last value the menu prompt returned)
    args,       \* main's locals symbol, side, quantity, price, stop_price, order_id
    stdin,      \* what the last input() did: a line, EOFError or KeyboardInterrupt
    log,        \* the entries TradingBotLogger has written, oldest first
    calls,      \* the calls issued to the exchange client, with what each did
    last,       \* the facade operation main ran last and how it ended
    console,    \* what print() wrote last
    exit_code,  \* the process exit status: <<>> while running, <<0>>, <<1>>
    actions     \* menu actions (options 1 to 8) started so far

vars == <<pc, choice, args, stdin, log, calls, last, console, exit_code, actions>>

\* Menu actions one run may start.
MaxActions == 1

\* Python's None, where a string may stand instead
None == <<"None">>

-----------------------------------------------------------------------------
(* str and float of Python, on sequences of characters *)

LowerLetters == <<"a","b","c","d","e","f","g","h","i","j","k","l","m",
                  "n","o","p","q","r","s","t","u","v","w","x","y","z">>
UpperLetters == <<"A","B","C","D","E","F","G","H","I","J","K","L","M",
                  "N","O","P","Q","R","S","T","U","V","W","X","Y","Z">>
DigitChars == <<"0","1","2","3","4","5","6","7","8","9">>
Whitespace == {" ", "\t"}

UpperChar(c) ==
    IF \E i \in DOMAIN LowerLetters : LowerLetters[i] = c
    THEN UpperLetters[CHOOSE i \in DOMAIN LowerLetters : LowerLetters[i] = c]
    ELSE c

LowerChar(c) ==
    IF \E i \in DOMAIN UpperLetters : UpperLetters[i] = c
    THEN LowerLetters[CHOOSE i \in DOMAIN UpperLetters : UpperLetters[i] = c]
    ELSE c

\* str.upper()
upper(s) == [i \in 1..Len(s) |-> UpperChar(s[i])]

lower(s) == [i \in 1..Len(s) |-> LowerChar(s[i])]

\* str.strip()
strip(s) ==
    LET keep == {i \in 1..Len(s) : s[i] \notin Whitespace}
    IN  IF keep = {} THEN <<>>
        ELSE LET lo == CHOOSE i \in keep : \A j \in keep : i <= j
                 hi == CHOOSE i \in keep : \A j \in keep : j <= i
             IN  SubSeq(s, lo, hi)

\* x in s, for two strings: x occurs in s as a substring
str_contains(s, x) ==
    \E i \in 0..(Len(s) - Len(x)) : SubSeq(s, i + 1, i + Len(x)) = x

\* x in [a, b, ...], for a list: x equals one of its elements
list_contains(l, x) == \E i \in 1..Len(l) : l[i] = x

IsDigit(c) == \E i \in DOMAIN DigitChars : DigitChars[i] = c
DigitVal(c) == (CHOOSE i \in DOMAIN DigitChars : DigitChars[i] = c) - 1

RECURSIVE DigitsValue(_)
DigitsValue(s) ==
    IF s = <<>> THEN 0
    ELSE DigitsValue(SubSeq(s, 1, Len(s) - 1)) * 10 + DigitVal(s[Len(s)])

RECURSIVE Pow10(_)
Pow10(n) == IF n = 0 THEN 1 ELSE 10 * Pow10(n - 1)

\* A float: finite ones are (-1)^neg * num / den, den a power of ten, in lowest
\* such terms; nan and inf are their own kinds.
RECURSIVE Reduce(_, _, _)
Reduce(neg, num, den) ==
    IF den > 1 /\ num % 10 = 0 THEN Reduce(neg, num \div 10, den \div 10)
    ELSE [kind |-> "finite", neg |-> neg, num |-> num, den |-> den]

NaN == [kind |-> "nan", neg |-> FALSE, num |-> 0, den |-> 1]
Inf(neg) == [kind |-> "inf", neg |-> neg, num |-> 0, den |-> 1]

ValueError(msg) == [type |-> "ValueError", msg |-> msg]

\* float(s): [ok |-> TRUE, value |-> v], or [ok |-> FALSE] for ValueError.
\* Covers whitespace, a sign, nan, inf, infinity and plain decimals.
float(s) ==
    LET t      == strip(s)
        signed == t # <<>> /\ t[1] \in {"+", "-"}
        neg    == t # <<>> /\ t[1] = "-"
        body   == IF signed THEN Tail(t) ELSE t
        word   == lower(body)
        dots   == {i \in 1..Len(body) : body[i] = "."}
        digits == SelectSeq(body, IsDigit)
        plain  == /\ \A i \in 1..Len(body) : IsDigit(body[i]) \/ body[i] = "."
                  /\ Cardinality(dots) <= 1
                  /\ digits # <<>>
        frac   == IF dots = {} THEN 0 ELSE Len(body) - (CHOOSE i \in dots : TRUE)
    IN  IF word = <<"n","a","n">> THEN [ok |-> TRUE, value |-> NaN]
        ELSE IF word \in {<<"i","n","f">>, <<"i","n","f","i","n","i","t","y">>}
             THEN [ok |-> TRUE, value |-> Inf(neg)]
        ELSE IF plain
             THEN [ok |-> TRUE, value |-> Reduce(neg, DigitsValue(digits), Pow10(frac))]
        ELSE [ok |-> FALSE, value |-> NaN]

\* x > 0 on floats: false for nan, for zero of either sign and for negatives
gt_zero(v) ==
    \/ v.kind = "finite" /\ ~v.neg /\ v.num > 0
    \/ v.kind = "inf" /\ ~v.neg

-----------------------------------------------------------------------------
(* Exceptions, and what the exchange client can do with a call *)

APIError   == [type |-> "BinanceAPIException",   msg |-> <<"APIError(code=-1121): Invalid symbol.">>]
OrderError == [type |-> "BinanceOrderException", msg |-> <<"BinanceOrderException(code=-2010): Order rejected">>]
NetError   == [type |-> "ConnectionError",       msg |-> <<"Max retries exceeded">>]
Interrupt  == [type |-> "KeyboardInterrupt",     msg |-> <<>>]
EOFError   == [type |-> "EOFError",              msg |-> <<"EOF when reading a line">>]
KeyError(k) == [type |-> "KeyError", msg |-> <<k>>]
SystemExit(code) == [type |-> "SystemExit", msg |-> <<code>>]

\* `except Exception` catches everything but the BaseException-only classes
IsException(e) == e.type \notin {"KeyboardInterrupt", "SystemExit"}

Ok(v)      == [kind |-> "ok", value |-> v]
Raises(e)  == [kind |-> "raise", exc |-> e]

\* What a client call can raise: the two vendor errors, a transport error, Ctrl-C
ClientErrors == {Raises(APIError), Raises(OrderError), Raises(NetError), Raises(Interrupt)}

EmptyDict == <<>>

AccountInfos ==
    { [totalWalletBalance |-> "15000.0", availableBalance |-> "14000.0",
       totalUnrealizedProfit |-> "0.0"] }

OrderRecord(status) ==
    [orderId |-> "8886774", symbol |-> "BTCUSDT", side |-> "BUY", type |-> "LIMIT",
     origQty |-> "0.01", executedQty |-> "0", status |-> status, time |-> "1753000000000"]

OrderResponses  == { OrderRecord("NEW") }
CancelResponses == { OrderRecord("CANCELED") }
StatusResponses == { OrderRecord("FILLED") }
OpenOrderLists  == { <<>>, <<OrderRecord("NEW")>> }

BTC == <<"B","T","C">>
ETH == <<"E","T","H">>
ZZ  == <<"Z","Z">>

Instrument(sym, filters) ==
    [symbol |-> sym, status |-> "TRADING", baseAsset |-> sym, quoteAsset |-> "USDT",
     filters |-> filters]
LotSize == [filterType |-> "LOT_SIZE", minQty |-> "0.001", stepSize |-> "0.001"]
PriceFilter == [filterType |-> "PRICE_FILTER", minQty |-> "-", stepSize |-> "-"]

\* Exchange-wide instrument lists: none listed, or ETH and BTC (ZZ never is)
ExchangeInfos ==
    { [symbols |-> <<>>],
      [symbols |-> <<Instrument(ETH, <<PriceFilter>>), Instrument(BTC, <<PriceFilter, LotSize>>)>>] }

\* Ticker responses: with the price, and one that lacks it
Tickers == { [price |-> "50000.0"], [time |-> "0"] }

AccountReplies  == {Ok(a) : a \in AccountInfos} \cup ClientErrors
PingReplies     == {Ok(EmptyDict)} \cup ClientErrors
OrderReplies    == {Ok(o) : o \in OrderResponses} \cup ClientErrors
CancelReplies   == {Ok(o) : o \in CancelResponses} \cup ClientErrors
StatusReplies   == {Ok(o) : o \in StatusResponses} \cup ClientErrors
OpenReplies     == {Ok(l) : l \in OpenOrderLists} \cup ClientErrors
TickerReplies   == {Ok(t) : t \in Tickers} \cup ClientErrors
ExchangeReplies == {Ok(x) : x \in ExchangeInfos} \cup ClientErrors
\* Client(api_key, api_secret, testnet=...) itself
ClientCtorReplies == {Ok(EmptyDict), Raises(NetError)}

\* int(time.time() * 1000)
Timestamps == {1000}

Get(d, k, default) == IF k \in DOMAIN d THEN d[k] ELSE default

-----------------------------------------------------------------------------
(* TradingBotLogger: one log entry per call *)

log_api_request(method, params) ==
    [kind |-> "request", method |-> method, data |-> params]

log_api_response(method, response) ==
    [kind |-> "response", method |-> method, data |-> response]

log_error(error, context) ==
    [kind |-> "error", context |-> context, error |-> error.msg]

log_order_execution(order_details) ==
    [kind |-> "execution", data |-> order_details]

log_info(message) == [kind |-> "info", message |-> message]

-----------------------------------------------------------------------------
(* BasicBot: each method gives the entries it logs, the client calls it     *)
(* issues and how it ends for its caller                                    *)

Returned(v) == [kind |-> "return", value |-> v]
Raised(e)   == [kind |-> "raise", exc |-> e]

Result(entries, issued, outcome) ==
    [log |-> entries, calls |-> issued, outcome |-> outcome]

\* A client call, with the number of entries the method had written to the log
\* when it issued the call: the statements of a method run in program order
Call(entries, name, params, reply) ==
    [name |-> name, params |-> params, reply |-> reply, logged |-> Len(entries)]

\* The calls of a callee that ran after its caller had written n entries
Later(issued, n) ==
    [i \in 1..Len(issued) |-> [issued[i] EXCEPT !.logged = @ + n]]

\* except <classes> as e: self.logger.log_error(e, context); raise
LogAndReraise(r, classes, context) ==
    IF r.outcome.kind = "raise" /\ r.outcome.exc.type \in classes
    THEN [r EXCEPT !.log = Append(@, log_error(r.outcome.exc, context))]
    ELSE r

\* _test_connection with a handler that logs the error and forgets to raise it again
test_connection_swallow(ping, account) ==
    LET req1  == <<log_api_request("ping", EmptyDict)>>
        call1 == <<Call(req1, "futures_ping", EmptyDict, ping)>>
        req2  == req1 \o <<log_api_response("ping", ping.value),
                           log_api_request("account_info", EmptyDict)>>
        call2 == call1 \o <<Call(req2, "futures_account", EmptyDict, account)>>
        swallowed(entries, issued, e) ==
            IF e.type = "BinanceAPIException"
            THEN Result(Append(entries, log_error(e, <<"API Connection Test">>)), issued,
                        Returned(EmptyDict))
            ELSE Result(entries, issued, Raised(e))
    IN  IF ping.kind = "raise" THEN swallowed(req1, call1, ping.exc)
        ELSE IF account.kind = "raise" THEN swallowed(req2, call2, account.exc)
        ELSE Result(
            req2 \o <<log_api_response("account_info",
                          [status |-> "success",
                           totalWalletBalance |->
                               Get(account.value, "totalWalletBalance", "N/A")]),
                      log_info("API connection successful")>>,
            call2, Returned(EmptyDict))

\* _test_connection (lines 85-101)
test_connection(ping, account) ==
    LET req1  == <<log_api_request("ping", EmptyDict)>>
        call1 == <<Call(req1, "futures_ping", EmptyDict, ping)>>
        req2  == req1 \o <<log_api_response("ping", ping.value),
                           log_api_request("account_info", EmptyDict)>>
        call2 == call1 \o <<Call(req2, "futures_account", EmptyDict, account)>>
        body  ==
            IF ping.kind = "raise" THEN Result(req1, call1, Raised(ping.exc))
            ELSE IF account.kind = "raise" THEN Result(req2, call2, Raised(account.exc))
            ELSE Result(
                req2 \o <<log_api_response("account_info",
                              [status |-> "success",
                               totalWalletBalance |->
                                   Get(account.value, "totalWalletBalance", "N/A")]),
                          log_info("API connection successful")>>,
                call2, Returned(EmptyDict))
    IN  LogAndReraise(body, {"BinanceAPIException"}, <<"API Connection Test">>)

\* BasicBot.__init__ (lines 65-83): ctor is what Client(...) does
BasicBot_init(ctor, ping, account) ==
    LET body ==
            IF ctor.kind = "raise" THEN Result(<<>>, <<>>, Raised(ctor.exc))
            ELSE LET t == test_connection(ping, account)
                     info == <<log_info("Trading Bot initialized successfully")>>
                 IN  Result(info \o t.log, Later(t.calls, Len(info)), t.outcome)
    IN  IF body.outcome.kind = "raise" /\ IsException(body.outcome.exc)
        THEN [body EXCEPT !.log = Append(@, log_error(body.outcome.exc, <<"Bot Initialization">>))]
        ELSE body

\* get_account_balance (lines 103-120)
get_account_balance(reply) ==
    LET req  == <<log_api_request("futures_account", EmptyDict)>>
        call == <<Call(req, "futures_account", EmptyDict, reply)>>
        balance_info ==
            [totalWalletBalance    |-> Get(reply.value, "totalWalletBalance", "0"),
             availableBalance      |-> Get(reply.value, "availableBalance", "0"),
             totalUnrealizedProfit |-> Get(reply.value, "totalUnrealizedProfit", "0")]
        body ==
            IF reply.kind = "raise" THEN Result(req, call, Raised(reply.exc))
            ELSE Result(req \o <<log_api_response("futures_account", balance_info)>>,
                        call, Returned(balance_info))
    IN  LogAndReraise(body, {"BinanceAPIException"}, <<"Get Account Balance">>)

\* The scan with the loop variable used after the loop: the last instrument looked
\* at stands for the match
FindSymbol_loop_variable(symbols, symbol) ==
    LET hits == {i \in 1..Len(symbols) : symbols[i].symbol = symbol}
    IN  IF symbols = <<>> THEN <<>>
        ELSE IF hits = {} THEN <<symbols[Len(symbols)]>>
        ELSE <<symbols[CHOOSE i \in hits : \A j \in hits : i <= j]>>

\* for s in exchange_info['symbols']: if s['symbol'] == symbol: ... break
FindSymbol(symbols, symbol) ==
    LET hits == {i \in 1..Len(symbols) : symbols[i].symbol = symbol}
    IN  IF hits = {} THEN <<>>
        ELSE <<symbols[CHOOSE i \in hits : \A j \in hits : i <= j]>>

\* next((f[key] for f in filters if f['filterType'] == 'LOT_SIZE'), 'N/A')
LotSizeField(filters, key) ==
    LET hits == {i \in 1..Len(filters) : filters[i].filterType = "LOT_SIZE"}
    IN  IF hits = {} THEN "N/A"
        ELSE filters[CHOOSE i \in hits : \A j \in hits : i <= j][key]

\* get_symbol_info (lines 122-155)
get_symbol_info(symbol, ticker, exchange_info) ==
    LET req1  == <<log_api_request("futures_symbol_ticker", [symbol |-> symbol])>>
        call1 == <<Call(req1, "futures_symbol_ticker", [symbol |-> symbol], ticker)>>
        req2  == req1 \o <<log_api_request("futures_exchange_info", EmptyDict)>>
        call2 == call1 \o <<Call(req2, "futures_exchange_info", EmptyDict, exchange_info)>>
        found == FindSymbol(exchange_info.value.symbols, symbol)
        symbol_info == found[1]
        result ==
            [symbol     |-> symbol,
             price      |-> ticker.value.price,
             status     |-> symbol_info.status,
             baseAsset  |-> symbol_info.baseAsset,
             quoteAsset |-> symbol_info.quoteAsset,
             minQty     |-> LotSizeField(symbol_info.filters, "minQty"),
             stepSize   |-> LotSizeField(symbol_info.filters, "stepSize")]
        body ==
            IF ticker.kind = "raise" THEN Result(req1, call1, Raised(ticker.exc))
            ELSE IF exchange_info.kind = "raise"
                 THEN Result(req2, call2, Raised(exchange_info.exc))
            ELSE IF found = <<>>
                 THEN Result(req2, call2,
                        Raised(ValueError(<<"Symbol ">> \o symbol \o <<" not found">>)))
            ELSE IF "price" \notin DOMAIN ticker.value
                 THEN Result(req2, call2, Raised(KeyError("price")))
            ELSE Result(req2 \o <<log_api_response("symbol_info", result)>>,
                        call2, Returned(result))
    IN  LogAndReraise(body, {"BinanceAPIException"}, <<"Get Symbol Info for ">> \o symbol)

\* place_market_order that writes its request entry only once the call is back
place_market_order_request_late(symbol, side, quantity, now, reply) ==
    LET order_params ==
            [symbol |-> symbol, side |-> upper(side), type |-> "MARKET",
             quantity |-> quantity, timestamp |-> now]
        req  == <<log_api_request("futures_create_order", order_params)>>
        call == <<Call(<<>>, "futures_create_order", order_params, reply)>>
        body ==
            IF reply.kind = "raise" THEN Result(<<>>, call, Raised(reply.exc))
            ELSE Result(req \o <<log_api_response("futures_create_order", reply.value),
                                 log_order_execution(reply.value)>>,
                        call, Returned(reply.value))
    IN  LogAndReraise(body, {"BinanceOrderException", "BinanceAPIException"},
                      <<"Market Order", side, quantity, symbol>>)

\* place_market_order (lines 157-182)
place_market_order(symbol, side, quantity, now, reply) ==
    LET order_params ==
            [symbol |-> symbol, side |-> upper(side), type |-> "MARKET",
             quantity |-> quantity, timestamp |-> now]
        req  == <<log_api_request("futures_create_order", order_params)>>
        call == <<Call(req, "futures_create_order", order_params, reply)>>
        body ==
            IF reply.kind = "raise" THEN Result(req, call, Raised(reply.exc))
            ELSE Result(req \o <<log_api_response("futures_create_order", reply.value),
                                 log_order_execution(reply.value)>>,
                        call, Returned(reply.value))
    IN  LogAndReraise(body, {"BinanceOrderException", "BinanceAPIException"},
                      <<"Market Order", side, quantity, symbol>>)

\* place_limit_order without its `except BinanceOrderException` clause
place_limit_order_api_only(symbol, side, quantity, price, now, reply) ==
    LET order_params ==
            [symbol |-> symbol, side |-> upper(side), type |-> "LIMIT",
             quantity |-> quantity, price |-> price, timeInForce |-> "GTC",
             timestamp |-> now]
        req  == <<log_api_request("futures_create_order", order_params)>>
        call == <<Call(req, "futures_create_order", order_params, reply)>>
        body ==
            IF reply.kind = "raise" THEN Result(req, call, Raised(reply.exc))
            ELSE Result(req \o <<log_api_response("futures_create_order", reply.value),
                                 log_order_execution(reply.value)>>,
                        call, Returned(reply.value))
    IN  LogAndReraise(body, {"BinanceAPIException"},
                      <<"Limit Order", side, quantity, symbol, price>>)

\* place_limit_order (lines 184-211)
place_limit_order(symbol, side, quantity, price, now, reply) ==
    LET order_params ==
            [symbol |-> symbol, side |-> upper(side), type |-> "LIMIT",
             quantity |-> quantity, price |-> price, timeInForce |-> "GTC",
             timestamp |-> now]
        req  == <<log_api_request("futures_create_order", order_params)>>
        call == <<Call(req, "futures_create_order", order_params, reply)>>
        body ==
            IF reply.kind = "raise" THEN Result(req, call, Raised(reply.exc))
            ELSE Result(req \o <<log_api_response("futures_create_order", reply.value),
                                 log_order_execution(reply.value)>>,
                        call, Returned(reply.value))
    IN  LogAndReraise(body, {"BinanceOrderException", "BinanceAPIException"},
                      <<"Limit Order", side, quantity, symbol, price>>)

\* place_stop_limit_order that builds the LIMIT mapping: no stopPrice
place_stop_limit_order_no_stop(symbol, side, quantity, price, stop_price, now, reply) ==
    LET order_params ==
            [symbol |-> symbol, side |-> upper(side), type |-> "STOP",
             quantity |-> quantity, price |-> price,
             timeInForce |-> "GTC", timestamp |-> now]
        req  == <<log_api_request("futures_create_order", order_params)>>
        call == <<Call(req, "futures_create_order", order_params, reply)>>
        body ==
            IF reply.kind = "raise" THEN Result(req, call, Raised(reply.exc))
            ELSE Result(req \o <<log_api_response("futures_create_order", reply.value),
                                 log_order_execution(reply.value)>>,
                        call, Returned(reply.value))
    IN  LogAndReraise(body, {"BinanceOrderException", "BinanceAPIException"},
                      <<"Stop-Limit Order", side, quantity, symbol, price, stop_price>>)

\* place_stop_limit_order (lines 213-241)
place_stop_limit_order(symbol, side, quantity, price, stop_price, now, reply) ==
    LET order_params ==
            [symbol |-> symbol, side |-> upper(side), type |-> "STOP",
             quantity |-> quantity, price |-> price, stopPrice |-> stop_price,
             timeInForce |-> "GTC", timestamp |-> now]
        req  == <<log_api_request("futures_create_order", order_params)>>
        call == <<Call(req, "futures_create_order", order_params, reply)>>
        body ==
            IF reply.kind = "raise" THEN Result(req, call, Raised(reply.exc))
            ELSE Result(req \o <<log_api_response("futures_create_order", reply.value),
                                 log_order_execution(reply.value)>>,
                        call, Returned(reply.value))
    IN  LogAndReraise(body, {"BinanceOrderException", "BinanceAPIException"},
                      <<"Stop-Limit Order", side, quantity, symbol, price, stop_price>>)

\* cancel_order that issues the call again when it raised
cancel_order_retry(symbol, order_id, reply) ==
    LET cancel_params == [symbol |-> symbol, orderId |-> order_id]
        req  == <<log_api_request("futures_cancel_order", cancel_params)>>
        call == <<Call(req, "futures_cancel_order", cancel_params, reply)>>
        body ==
            IF reply.kind = "raise" THEN Result(req, call \o call, Raised(reply.exc))
            ELSE Result(req \o <<log_api_response("futures_cancel_order", reply.value)>>,
                        call, Returned(reply.value))
    IN  LogAndReraise(body, {"BinanceAPIException"}, <<"Cancel Order", order_id, symbol>>)

\* cancel_order (lines 243-261)
cancel_order(symbol, order_id, reply) ==
    LET cancel_params == [symbol |-> symbol, orderId |-> order_id]
        req  == <<log_api_request("futures_cancel_order", cancel_params)>>
        call == <<Call(req, "futures_cancel_order", cancel_params, reply)>>
        body ==
            IF reply.kind = "raise" THEN Result(req, call, Raised(reply.exc))
            ELSE Result(req \o <<log_api_response("futures_cancel_order", reply.value)>>,
                        call, Returned(reply.value))
    IN  LogAndReraise(body, {"BinanceAPIException"}, <<"Cancel Order", order_id, symbol>>)

\* `if symbol:` is false for None and for the empty string
Truthy(s) == s # None /\ s # <<>>

\* get_open_orders that logs its response under another name than its request
get_open_orders_renamed(symbol, reply) ==
    LET params == IF Truthy(symbol) THEN [symbol |-> symbol] ELSE EmptyDict
        req  == <<log_api_request("futures_get_open_orders", params)>>
        call == <<Call(req, "futures_get_open_orders", params, reply)>>
        body ==
            IF reply.kind = "raise" THEN Result(req, call, Raised(reply.exc))
            ELSE Result(req \o <<log_api_response("open_orders",
                                                  [count |-> Len(reply.value)])>>,
                        call, Returned(reply.value))
    IN  LogAndReraise(body, {"BinanceAPIException"},
            <<"Get Open Orders for", IF Truthy(symbol) THEN symbol ELSE <<"all symbols">> >>)

\* get_open_orders (lines 263-280)
get_open_orders(symbol, reply) ==
    LET params == IF Truthy(symbol) THEN [symbol |-> symbol] ELSE EmptyDict
        req  == <<log_api_request("futures_get_open_orders", params)>>
        call == <<Call(req, "futures_get_open_orders", params, reply)>>
        body ==
            IF reply.kind = "raise" THEN Result(req, call, Raised(reply.exc))
            ELSE Result(req \o <<log_api_response("futures_get_open_orders",
                                                  [count |-> Len(reply.value)])>>,
                        call, Returned(reply.value))
    IN  LogAndReraise(body, {"BinanceAPIException"},
            <<"Get Open Orders for", IF Truthy(symbol) THEN symbol ELSE <<"all symbols">> >>)

\* get_order_status (lines 282-300)
get_order_status(symbol, order_id, reply) ==
    LET params == [symbol |-> symbol, orderId |-> order_id]
        req  == <<log_api_request("futures_get_order", params)>>
        call == <<Call(req, "futures_get_order", params, reply)>>
        body ==
            IF reply.kind = "raise" THEN Result(req, call, Raised(reply.exc))
            ELSE Result(req \o <<log_api_response("futures_get_order", reply.value)>>,
                        call, Returned(reply.value))
    IN  LogAndReraise(body, {"BinanceAPIException"}, <<"Get Order Status", order_id, symbol>>)

-----------------------------------------------------------------------------
(* validate_input and main *)

Unset == [kind |-> "unset", neg |-> FALSE, num |-> 0, den |-> 1]

Line(text) == [kind |-> "line", text |-> text]

FloatPrompts == {"quantity", "price", "stop_price"}
ValidatedPrompts == {"choice", "symbol", "side", "order_id"} \cup FloatPrompts
Prompts == ValidatedPrompts \cup {"open_symbol"}

\* What the user may type at each prompt
Inputs(p) ==
    CASE p = "choice" ->
            {<<"1">>, <<"2">>, <<"3">>, <<"4">>, <<"5">>, <<"6">>, <<"7">>, <<"8">>,
             <<"9">>, <<>>, <<"1","2">>, <<"x">>, <<" ","9"," ">>}
      [] p = "symbol"      -> {<<"b","t","c">>, <<"Z","Z">>}
      [] p = "side"        -> {<<"b","u","y">>, <<"S","E","L","L">>, <<"h","o","l","d">>}
      [] p = "quantity"    -> {<<"a","b","c">>, <<>>, <<"0">>, <<"-","1">>, <<"n","a","n">>,
                               <<" ","0",".","0","1">>}
      [] p = "price"       -> {<<"0",".","0">>, <<"-","i","n","f">>, <<"5","0","0","0","0">>}
      [] p = "stop_price"  -> {<<"4","9",",","5">>, <<"-","0">>, <<"4","9","0","0","0",".","5">>}
      [] p = "order_id"    -> {<<"4","2">>}
      [] p = "open_symbol" -> {<<>>, <<" ">>, <<"b","t","c">>}

\* The lambdas main passes as validation_func (lines 362, 367, 368); "none" is no function
validation_func(name, x) ==
    CASE name = "menu"     -> str_contains(<<"1","2","3","4","5","6","7","8","9">>, x)
      [] name = "side"     -> list_contains(<< <<"B","U","Y">>, <<"S","E","L","L">> >>, x)
      [] name = "positive" -> gt_zero(x)
      [] name = "none"     -> TRUE

\* validate_input without the `continue` after its "Invalid input" message
validate_input_no_continue(user_input, input_type, validation) ==
    LET parsed == float(user_input)
        value  == IF input_type = "str" THEN upper(strip(user_input)) ELSE parsed.value
    IN  IF input_type = "float" /\ ~parsed.ok
        THEN [kind |-> "again", message |-> "Please enter a valid float"]
        ELSE [kind |-> "return", value |-> value]

\* One pass of validate_input's loop over a line read (lines 305-321): the value it
\* returns, or the message it prints before it prompts again
validate_input(user_input, input_type, validation) ==
    LET parsed == float(user_input)
        value  == IF input_type = "str" THEN upper(strip(user_input)) ELSE parsed.value
    IN  IF input_type = "float" /\ ~parsed.ok
        THEN [kind |-> "again", message |-> "Please enter a valid float"]
        ELSE IF ~validation_func(validation, value)
        THEN [kind |-> "again", message |-> "Invalid input. Please try again."]
        ELSE [kind |-> "return", value |-> value]

\* validate_input's `except KeyboardInterrupt` (lines 322-324)
validate_input_interrupt == SystemExit(0)

\* The arguments main gives validate_input at each prompt
InputType(p) == IF p \in FloatPrompts THEN "float" ELSE "str"
Validation(p) ==
    CASE p = "choice" -> "menu"
      [] p = "side" -> "side"
      [] p \in FloatPrompts -> "positive"
      [] OTHER -> "none"

One(c) == <<c>>
MenuActions == {One(c) : c \in {"1", "2", "3", "4", "5", "6", "7", "8"}}

\* main's if/elif chain (lines 364-486): where it goes after prompt p returned
NextPc(ch, p) ==
    CASE p = "choice" ->
            IF ch \in {One("1"), One("2"), One("3"), One("5"), One("6"), One("7")}
            THEN "symbol"
            ELSE IF ch = One("4") THEN "open_symbol"
            ELSE IF ch = One("8") THEN "call"
            ELSE IF ch = One("9") THEN "done"
            ELSE "choice"
      [] p = "symbol" ->
            IF ch \in {One("1"), One("2"), One("3")} THEN "side"
            ELSE IF ch \in {One("5"), One("6")} THEN "order_id"
            ELSE "call"
      [] p = "side" -> "quantity"
      [] p = "quantity" -> IF ch = One("1") THEN "call" ELSE "price"
      [] p = "price" -> IF ch = One("2") THEN "call" ELSE "stop_price"
      [] OTHER -> "call"

\* main with `except Exception` widened to everything raised: Ctrl-C is fatal too
main_except_all_fatal(e) ==
    IF e.type = "SystemExit" THEN [exit |-> e.msg[1], console |-> "Goodbye!"]
    ELSE [exit |-> 1, console |-> "Fatal error"]

\* main's top-level handlers (lines 488-492) and the interpreter's exit status.
\* SystemExit passes both handlers; it comes from validate_input, which has printed
\* its own Goodbye
main_except(e) ==
    IF e.type = "KeyboardInterrupt" THEN [exit |-> 0, console |-> "Goodbye!"]
    ELSE IF IsException(e) THEN [exit |-> 1, console |-> "Fatal error"]
    ELSE [exit |-> e.msg[1], console |-> "Goodbye!"]

NoArgs == [symbol |-> None, side |-> None, order_id |-> None,
           quantity |-> Unset, price |-> Unset, stop_price |-> Unset]

NoOp == [op |-> "none", site |-> "none", args |-> NoArgs, log_from |-> 0, calls_from |-> 0,
         outcome |-> [kind |-> "none"]]

Init ==
    /\ pc = "init"
    /\ choice = None
    /\ args = NoArgs
    /\ stdin = Line(<<>>)
    /\ log = <<>>
    /\ calls = <<>>
    /\ last = NoOp
    /\ console = "banner"
    /\ exit_code = <<>>
    /\ actions = 0

\* An exception reaches main's top level: the run ends
Escape(e) ==
    /\ pc' = "done"
    /\ exit_code' = <<main_except(e).exit>>
    /\ console' = main_except(e).console

\* The facade method op ran with the arguments given, called at startup, from the
\* menu or by another caller, and it gave r: the log and the client's history grow
Ran(op, site, given, r) ==
    /\ log' = log \o r.log
    /\ calls' = calls \o r.calls
    /\ last' = [op |-> op, site |-> site, args |-> given, log_from |-> Len(log),
                calls_from |-> Len(calls), outcome |-> r.outcome]

\* bot = BasicBot(...) (line 341)
Construct ==
    /\ pc = "init"
    /\ \E ctor \in ClientCtorReplies, ping \in PingReplies, account \in AccountReplies :
        LET r == BasicBot_init(ctor, ping, account)
        IN  /\ Ran("init", "startup", args, r)
            /\ IF r.outcome.kind = "raise"
               THEN Escape(r.outcome.exc)
               ELSE pc' = "balance" /\ UNCHANGED <<exit_code, console>>
    /\ UNCHANGED <<choice, args, stdin, actions>>

\* balance = bot.get_account_balance() and its prints (lines 344-348)
StartupBalance ==
    /\ pc = "balance"
    /\ \E reply \in AccountReplies :
        LET r == get_account_balance(reply)
        IN  /\ Ran("get_account_balance", "startup", args, r)
            /\ IF r.outcome.kind = "raise"
               THEN Escape(r.outcome.exc)
               ELSE pc' = "choice" /\ console' = "Account Balance" /\ UNCHANGED exit_code
    /\ UNCHANGED <<choice, args, stdin, actions>>

\* A validated prompt reads a line (validate_input called from lines 362-458)
Prompt ==
    /\ pc \in ValidatedPrompts
    /\ \E raw \in Inputs(pc) :
        LET r == validate_input(raw, InputType(pc), Validation(pc))
        IN  /\ stdin' = Line(raw)
            /\ IF r.kind = "again"
               THEN /\ console' = r.message
                    /\ UNCHANGED <<pc, choice, args, actions>>
               ELSE IF pc = "choice"
               THEN /\ r.value \in MenuActions => actions < MaxActions
                    /\ choice' = r.value
                    /\ pc' = NextPc(r.value, "choice")
                    /\ actions' = IF r.value \in MenuActions THEN actions + 1 ELSE actions
                    /\ console' = IF r.value = One("9") THEN "Thank you" ELSE "menu"
                    /\ UNCHANGED args
               ELSE /\ args' = [args EXCEPT ![pc] = r.value]
                    /\ pc' = NextPc(choice, pc)
                    /\ UNCHANGED <<choice, actions, console>>
            /\ exit_code' = IF pc' = "done" THEN <<0>> ELSE exit_code
    /\ UNCHANGED <<log, calls, last>>

\* symbol = input("Enter symbol (or press Enter for all): ").strip().upper() (411-412)
OpenOrdersPrompt ==
    /\ pc = "open_symbol"
    /\ \E raw \in Inputs(pc) :
        LET symbol == upper(strip(raw))
        IN  /\ stdin' = Line(raw)
            /\ args' = [args EXCEPT !.symbol = IF symbol # <<>> THEN symbol ELSE None]
    /\ pc' = "call"
    /\ UNCHANGED <<choice, log, calls, last, console, exit_code, actions>>

\* Ctrl-C while input() waits: validate_input turns it into sys.exit(0), the bare
\* input() of option 4 lets it reach main
PromptInterrupt ==
    /\ pc \in Prompts
    /\ stdin' = [kind |-> "KeyboardInterrupt", text |-> <<>>]
    /\ Escape(IF pc \in ValidatedPrompts THEN validate_input_interrupt ELSE Interrupt)
    /\ UNCHANGED <<choice, args, log, calls, last, actions>>

\* End of input while input() waits: no handler below main's catches EOFError
PromptEOF ==
    /\ pc \in Prompts
    /\ stdin' = [kind |-> "EOFError", text |-> <<>>]
    /\ Escape(EOFError)
    /\ UNCHANGED <<choice, args, log, calls, last, actions>>

\* A menu branch whose handler names the vendor errors only: any other error of
\* the facade call goes past it to main's top-level handlers
Handled_vendor_only(op, r, printed) ==
    /\ Ran(op, "menu", args, r)
    /\ IF r.outcome.kind = "raise" /\ r.outcome.exc.type \notin
                                         {"BinanceAPIException", "BinanceOrderException"}
       THEN Escape(r.outcome.exc)
       ELSE /\ pc' = "choice"
            /\ console' = IF r.outcome.kind = "return" /\ printed THEN "result" ELSE "Error"
            /\ UNCHANGED exit_code
    /\ UNCHANGED <<choice, args, stdin, actions>>

\* A menu branch's try/except around its facade call (e.g. lines 370-376): the
\* fields it prints must be there, `except Exception` keeps the loop going
Handled(op, r, printed) ==
    /\ Ran(op, "menu", args, r)
    /\ IF r.outcome.kind = "raise" /\ ~IsException(r.outcome.exc)
       THEN Escape(r.outcome.exc)
       ELSE /\ pc' = "choice"
            /\ console' = IF r.outcome.kind = "return" /\ printed THEN "result" ELSE "Error"
            /\ UNCHANGED exit_code
    /\ UNCHANGED <<choice, args, stdin, actions>>

HasKeys(d, keys) == keys \subseteq DOMAIN d

\* Option 1 (lines 364-376)
MarketOrder ==
    /\ pc = "call" /\ choice = One("1")
    /\ \E now \in Timestamps, reply \in OrderReplies :
        LET r == place_market_order(args.symbol, args.side, args.quantity, now, reply)
        IN  Handled("place_market_order", r, HasKeys(r.outcome.value, {"orderId", "status"}))

\* Option 2 (lines 378-391)
LimitOrder ==
    /\ pc = "call" /\ choice = One("2")
    /\ \E now \in Timestamps, reply \in OrderReplies :
        LET r == place_limit_order(args.symbol, args.side, args.quantity, args.price,
                                   now, reply)
        IN  Handled("place_limit_order", r, HasKeys(r.outcome.value, {"orderId", "status"}))

\* Option 3 (lines 393-407)
StopLimitOrder ==
    /\ pc = "call" /\ choice = One("3")
    /\ \E now \in Timestamps, reply \in OrderReplies :
        LET r == place_stop_limit_order(args.symbol, args.side, args.quantity, args.price,
                                        args.stop_price, now, reply)
        IN  Handled("place_stop_limit_order", r,
                    HasKeys(r.outcome.value, {"orderId", "status"}))

\* Option 4 (lines 409-423), after its prompt
OpenOrders ==
    /\ pc = "call" /\ choice = One("4")
    /\ \E reply \in OpenReplies :
        LET r == get_open_orders(args.symbol, reply)
        IN  Handled("get_open_orders", r,
                    \A i \in 1..Len(r.outcome.value) :
                        HasKeys(r.outcome.value[i],
                                {"orderId", "symbol", "side", "type", "origQty", "status"}))

\* Option 5 (lines 425-435)
CancelOrder ==
    /\ pc = "call" /\ choice = One("5")
    /\ \E reply \in CancelReplies :
        LET r == cancel_order(args.symbol, args.order_id, reply)
        IN  Handled("cancel_order", r, HasKeys(r.outcome.value, {"status"}))

\* Option 6 (lines 437-454)
OrderStatus ==
    /\ pc = "call" /\ choice = One("6")
    /\ \E reply \in StatusReplies :
        LET r == get_order_status(args.symbol, args.order_id, reply)
        IN  Handled("get_order_status", r,
                    HasKeys(r.outcome.value, {"orderId", "symbol", "side", "type",
                                              "origQty", "executedQty", "status", "time"}))

\* Option 7 (lines 456-471)
SymbolInfo ==
    /\ pc = "call" /\ choice = One("7")
    /\ \E ticker \in TickerReplies, exchange_info \in ExchangeReplies :
        LET r == get_symbol_info(args.symbol, ticker, exchange_info)
        IN  Handled("get_symbol_info", r, TRUE)

\* Option 8 (lines 473-482)
AccountBalance ==
    /\ pc = "call" /\ choice = One("8")
    /\ \E reply \in AccountReplies :
        LET r == get_account_balance(reply)
        IN  Handled("get_account_balance", r, TRUE)

Next ==
    \/ Construct
    \/ StartupBalance
    \/ Prompt
    \/ OpenOrdersPrompt
    \/ PromptInterrupt
    \/ PromptEOF
    \/ MarketOrder
    \/ LimitOrder
    \/ StopLimitOrder
    \/ OpenOrders
    \/ CancelOrder
    \/ OrderStatus
    \/ SymbolInfo
    \/ AccountBalance

Spec == Init /\ [][Next]_vars

-----------------------------------------------------------------------------
(* BasicBot used as a class: a caller other than main constructs it and calls   *)
(* its methods with arguments of its own, which nothing has validated           *)

CallerSymbols == {BTC, <<"b","t","c">>, ZZ}
CallerSides == {<<"b","u","y">>, <<"B","U","Y">>, <<"S","e","l","l">>}
CallerNumbers == {float(<<"0",".","0","1">>).value, float(<<"5","0","0","0","0">>).value}

\* bot = BasicBot(api_key, api_secret) has returned
InitFacade ==
    /\ pc = "caller"
    /\ choice = None
    /\ args = NoArgs
    /\ stdin = Line(<<>>)
    /\ \E account \in AccountInfos :
        LET r == BasicBot_init(Ok(EmptyDict), Ok(EmptyDict), Ok(account))
        IN  /\ log = r.log
            /\ calls = r.calls
            /\ last = [op |-> "init", site |-> "caller", args |-> NoArgs, log_from |-> 0,
                       calls_from |-> 0, outcome |-> r.outcome]
    /\ console = "banner"
    /\ exit_code = <<>>
    /\ actions = 0

\* The caller gets the result or the exception and goes on
Called(op, given, r) ==
    /\ actions < MaxActions
    /\ Ran(op, "caller", given, r)
    /\ actions' = actions + 1
    /\ UNCHANGED <<pc, choice, args, stdin, console, exit_code>>

CallPlaceMarketOrder ==
    /\ pc = "caller"
    /\ \E side \in CallerSides, quantity \in CallerNumbers, now \in Timestamps,
          reply \in OrderReplies :
           Called("place_market_order",
                  [NoArgs EXCEPT !.symbol = BTC, !.side = side, !.quantity = quantity],
                  place_market_order(BTC, side, quantity, now, reply))

CallPlaceLimitOrder ==
    /\ pc = "caller"
    /\ \E side \in CallerSides, quantity \in CallerNumbers, price \in CallerNumbers,
          now \in Timestamps, reply \in OrderReplies :
           Called("place_limit_order",
                  [NoArgs EXCEPT !.symbol = BTC, !.side = side, !.quantity = quantity,
                                 !.price = price],
                  place_limit_order(BTC, side, quantity, price, now, reply))

CallPlaceStopLimitOrder ==
    /\ pc = "caller"
    /\ \E side \in CallerSides, quantity \in CallerNumbers, price \in CallerNumbers,
          stop_price \in CallerNumbers, now \in Timestamps, reply \in OrderReplies :
           Called("place_stop_limit_order",
                  [NoArgs EXCEPT !.symbol = BTC, !.side = side, !.quantity = quantity,
                                 !.price = price, !.stop_price = stop_price],
                  place_stop_limit_order(BTC, side, quantity, price, stop_price, now, reply))

CallGetSymbolInfo ==
    /\ pc = "caller"
    /\ \E symbol \in CallerSymbols, ticker \in TickerReplies,
          exchange_info \in ExchangeReplies :
           Called("get_symbol_info", [NoArgs EXCEPT !.symbol = symbol],
                  get_symbol_info(symbol, ticker, exchange_info))

NextFacade ==
    \/ CallPlaceMarketOrder
    \/ CallPlaceLimitOrder
    \/ CallPlaceStopLimitOrder
    \/ CallGetSymbolInfo

SpecFacade == InitFacade /\ [][NextFacade]_vars

-----------------------------------------------------------------------------
(* What the last facade operation added to the log and asked of the client *)

LastLog == SubSeq(log, last.log_from + 1, Len(log))
LastCalls == SubSeq(calls, last.calls_from + 1, Len(calls))

Entries(entries, kind) == {i \in 1..Len(entries) : entries[i].kind = kind}

OrderOps == {"place_market_order", "place_limit_order", "place_stop_limit_order"}
FacadeMethods ==
    OrderOps \cup {"get_account_balance", "get_symbol_info", "cancel_order",
                   "get_open_orders", "get_order_status"}
VendorErrors == {"BinanceAPIException", "BinanceOrderException"}

\* The operation's one and only client call raised a vendor error
LastCallRaised(types) ==
    /\ LastCalls # <<>>
    /\ LastCalls[Len(LastCalls)].reply.kind = "raise"
    /\ LastCalls[Len(LastCalls)].reply.exc.type \in types

\* C1: every facade operation that completes successfully (the connectivity check of
\* construction included) adds exactly one request entry and exactly one response
\* entry to the log, and the two name the same operation.
C1_Original_OneRequestOneResponse ==
    (last.op # "none" /\ last.outcome.kind = "return") =>
        LET e    == LastLog
            req  == Entries(e, "request")
            resp == Entries(e, "response")
        IN  /\ Cardinality(req) = 1
            /\ Cardinality(resp) = 1
            /\ \A i \in req, j \in resp : e[i].method = e[j].method

\* C2: when the order-creation call of place_market_order, place_limit_order or
\* place_stop_limit_order raises a vendor error (BinanceAPIException or
\* BinanceOrderException), the method writes exactly one error entry and raises
\* that very error, type and message, to its caller.
C2_FailedOrderLoggedOnceAndReraised ==
    (last.op \in OrderOps /\ LastCallRaised(VendorErrors)) =>
        /\ Cardinality(Entries(LastLog, "error")) = 1
        /\ last.outcome = Raised(LastCalls[Len(LastCalls)].reply.exc)
        /\ LastLog[Len(LastLog)].kind = "error"
        /\ LastLog[Len(LastLog)].error = LastCalls[Len(LastCalls)].reply.exc.msg

C2_Witness ==
    /\ last.op = "place_limit_order"
    /\ LastCallRaised({"BinanceOrderException"})
    /\ Cardinality(Entries(LastLog, "error")) = 1
    /\ last.outcome = Raised(OrderError)

\* The text each method starts its error context with
ContextOf(op) ==
    CASE op = "get_account_balance"    -> "Get Account Balance"
      [] op = "get_symbol_info"        -> "Get Symbol Info for "
      [] op = "place_market_order"     -> "Market Order"
      [] op = "place_limit_order"      -> "Limit Order"
      [] op = "place_stop_limit_order" -> "Stop-Limit Order"
      [] op = "cancel_order"           -> "Cancel Order"
      [] op = "get_open_orders"        -> "Get Open Orders for"
      [] op = "get_order_status"       -> "Get Order Status"

\* C3: in every facade method, a vendor error raised by the client call, an API
\* error or an order-rejection error alike, is logged with that method's context
\* and then raised unchanged: none reaches the caller unlogged.
C3_EveryVendorErrorLogged ==
    (last.op \in FacadeMethods /\ LastCallRaised(VendorErrors)) =>
        /\ last.outcome = Raised(LastCalls[Len(LastCalls)].reply.exc)
        /\ \E i \in Entries(LastLog, "error") : LastLog[i].context[1] = ContextOf(last.op)

MarketKeys == {"symbol", "side", "type", "quantity", "timestamp"}
LimitKeys  == MarketKeys \cup {"price", "timeInForce"}
StopKeys   == LimitKeys \cup {"stopPrice"}

KeysOf(op) ==
    CASE op = "place_market_order"     -> MarketKeys
      [] op = "place_limit_order"      -> LimitKeys
      [] op = "place_stop_limit_order" -> StopKeys

\* C4: the mapping an order placement submits has exactly the keys of its kind
\* (MARKET: symbol, side, type, quantity, timestamp; LIMIT: those and price,
\* timeInForce; STOP-LIMIT: those and stopPrice), carries the arguments given,
\* timeInForce GTC and the upper-cased side, and is the mapping the request entry
\* logged.
C4_OrderParamsHaveTheKeysOfTheirKind ==
    last.op \in OrderOps =>
        /\ Len(LastCalls) = 1
        /\ LET submitted == LastCalls[1].params
               given     == last.args
           IN  /\ LastCalls[1].name = "futures_create_order"
               /\ DOMAIN submitted = KeysOf(last.op)
               /\ submitted.symbol = given.symbol
               /\ submitted.side = upper(given.side)
               /\ submitted.quantity = given.quantity
               /\ "timeInForce" \in DOMAIN submitted => submitted.timeInForce = "GTC"
               /\ "price" \in DOMAIN submitted => submitted.price = given.price
               /\ "stopPrice" \in DOMAIN submitted => submitted.stopPrice = given.stop_price
               /\ LastLog[1] = log_api_request("futures_create_order", submitted)

C4_Witness ==
    /\ last.op = "place_stop_limit_order"
    /\ last.outcome.kind = "return"
    /\ LastCalls[1].params.stopPrice = float(<<"5","0","0","0","0">>).value
    /\ LastCalls[1].params.price # LastCalls[1].params.stopPrice
    /\ last.args.side = <<"b","u","y">>
    /\ LastCalls[1].params.side = <<"B","U","Y">>

\* The operation names of the entries of one kind, in the order logged
RECURSIVE MethodsOf(_, _)
MethodsOf(entries, kind) ==
    IF entries = <<>> THEN <<>>
    ELSE IF Head(entries).kind = kind
         THEN <<Head(entries).method>> \o MethodsOf(Tail(entries), kind)
         ELSE MethodsOf(Tail(entries), kind)

RECURSIVE NamesOf(_)
NamesOf(issued) ==
    IF issued = <<>> THEN <<>> ELSE <<Head(issued).name>> \o NamesOf(Tail(issued))

SingleCallMethods == FacadeMethods \ {"get_symbol_info"}

\* C1, amended: a successful operation logs one request entry per client call it
\* issues. The seven single-call methods and both uses of get_account_balance log
\* exactly one request and one response of the same name; construction's
\* connectivity check logs two such pairs (ping, account_info); get_symbol_info logs
\* two requests (futures_symbol_ticker, futures_exchange_info) and a single response
\* named symbol_info.
C1_RequestPerCallResponsePerOperation ==
    (last.op # "none" /\ last.outcome.kind = "return") =>
        LET req  == MethodsOf(LastLog, "request")
            resp == MethodsOf(LastLog, "response")
        IN  /\ Len(req) = Len(LastCalls)
            /\ last.op \in SingleCallMethods =>
                   /\ Len(req) = 1 /\ resp = req
                   /\ req[1] = LastCalls[1].name
            /\ last.op = "init" =>
                   /\ req = <<"ping", "account_info">>
                   /\ resp = req
                   /\ LastLog[Len(LastLog) - 1].kind = "response"
            /\ last.op = "get_symbol_info" =>
                   /\ req = NamesOf(LastCalls)
                   /\ req = <<"futures_symbol_ticker", "futures_exchange_info">>
                   /\ resp = <<"symbol_info">>

C1_Witness ==
    /\ last.op = "get_symbol_info"
    /\ last.outcome.kind = "return"
    /\ Cardinality(Entries(LastLog, "request")) = 2
    /\ Cardinality(Entries(LastLog, "response")) = 1

Pinged ==
    Len(calls) >= 1 /\ calls[1].name = "futures_ping" /\ calls[1].reply.kind = "ok"
Fetched ==
    Len(calls) >= 2 /\ calls[2].name = "futures_account" /\ calls[2].reply.kind = "ok"

\* C5: unless the ping and then the account fetch of construction both succeeded,
\* construction raised the error that stopped it, the run is over with the client
\* asked nothing more, and so no facade operation was ever issued; every facade
\* operation has the successful ping and account fetch before it.
C5_NoOperationWithoutConnectivity ==
    /\ (last.op # "none" /\ ~(Pinged /\ Fetched)) =>
           /\ last.op = "init"
           /\ last.outcome.kind = "raise"
           /\ calls # <<>> => calls[Len(calls)].reply = Raises(last.outcome.exc)
           /\ Len(calls) <= 2
           /\ pc = "done"
           /\ exit_code # <<>>
    /\ (last.op \in FacadeMethods \/ Len(calls) > 2) => (Pinged /\ Fetched)

C5_Witness ==
    /\ last.op = "init"
    /\ Len(calls) = 2
    /\ calls[1].reply.kind = "ok"
    /\ calls[2].reply = Raises(APIError)
    /\ last.outcome = Raised(APIError)
    /\ pc = "done"
    /\ exit_code = <<1>>

\* The instrument list came back and does not hold the symbol asked for
SymbolAbsent ==
    /\ last.op = "get_symbol_info"
    /\ Len(LastCalls) = 2
    /\ LastCalls[2].reply.kind = "ok"
    /\ \A i \in 1..Len(LastCalls[2].reply.value.symbols) :
           LastCalls[2].reply.value.symbols[i].symbol # last.args.symbol

\* C6: get_symbol_info for a symbol absent from the instrument list, whatever the
\* list and the ticker response, raises the not-found ValueError to its caller,
\* returns nothing and logs no response entry.
C6_AbsentSymbolIsNotFound ==
    SymbolAbsent =>
        /\ last.outcome.kind = "raise"
        /\ last.outcome.exc.type = "ValueError"
        /\ last.outcome.exc.msg = <<"Symbol ">> \o last.args.symbol \o <<" not found">>
        /\ Entries(LastLog, "response") = {}

C6_Witness ==
    /\ SymbolAbsent
    /\ last.args.symbol = <<"b","t","c">>
    /\ LastCalls[2].reply.value.symbols # <<>>
    /\ LastCalls[1].reply.kind = "ok"
    /\ "price" \notin DOMAIN LastCalls[1].reply.value
    /\ last.outcome.kind = "raise"

\* A number greater than zero, read off the float itself
PositiveNumber(v) ==
    /\ v.kind \in {"finite", "inf"}
    /\ ~v.neg
    /\ v.kind = "finite" => v.num >= 1

\* The line does not parse as a number, or parses to one that is not positive
BadNumber(text) == ~float(text).ok \/ ~PositiveNumber(float(text).value)

\* C7: at the quantity, price, limit price and stop price prompts, a line that does
\* not parse as a number or is not strictly positive is not returned and does not
\* end the program: main stays at the same prompt with its locals as they were;
\* and every number a prompt did return is greater than zero.
C7_NumericPromptsRepromptUntilPositive ==
    [][ /\ (pc \in FloatPrompts /\ stdin'.kind = "line" /\ BadNumber(stdin'.text)) =>
               /\ pc' = pc
               /\ args' = args
               /\ exit_code' = <<>>
               /\ console' \in {"Please enter a valid float",
                                "Invalid input. Please try again."}
        /\ \A f \in FloatPrompts : args'[f] = Unset \/ PositiveNumber(args'[f])
        /\ (pc \in FloatPrompts /\ pc' # pc /\ stdin'.kind = "line") =>
               /\ float(stdin'.text).ok
               /\ args'[pc] = float(stdin'.text).value
      ]_vars

C7_Witness ==
    /\ pc = "stop_price"
    /\ stdin = Line(<<"-","0">>)
    /\ console = "Invalid input. Please try again."
    /\ args.price # Unset
    /\ args.stop_price = Unset
    /\ exit_code = <<>>

Nine == {One(c) : c \in {"1", "2", "3", "4", "5", "6", "7", "8", "9"}}

\* C8: the choice the menu prompt returns is always one of the nine single
\* characters "1" to "9": the empty line, "12" and every other line are rejected
\* and the prompt is issued again.
C8_ChoiceIsOneOfNine ==
    choice = None \/ choice \in Nine

Interrupted ==
    \/ stdin.kind = "KeyboardInterrupt"
    \/ last.outcome.kind = "raise" /\ last.outcome.exc.type = "KeyboardInterrupt"

\* An error no per-action handler catches: end of input at a prompt, or an error
\* raised by construction or by the balance query that follows it
ErrorEscaped ==
    \/ stdin.kind = "EOFError"
    \/ /\ last.site = "startup"
       /\ last.outcome.kind = "raise"
       /\ last.outcome.exc.type # "KeyboardInterrupt"

\* C9: the run ends with exit code 1 when an error escaped to the top level of
\* main, and with exit code 0 when it ended by option 9 or by a keyboard interrupt,
\* at a validated prompt, at the open-orders symbol prompt, during a facade call or
\* during initialization; it ends in no other way, and has no exit code before.
C9_ExitCodes ==
    /\ pc # "done" => exit_code = <<>> /\ ~Interrupted /\ ~ErrorEscaped
    /\ pc = "done" =>
           /\ ErrorEscaped => exit_code = <<1>>
           /\ Interrupted => exit_code = <<0>>
           /\ (~ErrorEscaped /\ ~Interrupted) => (choice = One("9") /\ exit_code = <<0>>)

C9_Witness ==
    /\ pc = "done"
    /\ last.op = "get_order_status"
    /\ last.outcome = Raised(Interrupt)
    /\ exit_code = <<0>>

\* C10: every menu action runs exactly one call to the exchange client.
C10_Original_OneCallPerAction ==
    last.site = "menu" => Len(LastCalls) = 1

\* C10, amended: the menu actions of options 1 to 6 and 8 run exactly one client
\* call; option 7 runs the ticker call and, only when that returned, the
\* instrument-list call, two different calls; a call that raised is the last one
\* of its action, so none is issued again; and every call has returned or raised
\* when the step ends, with main back at the menu prompt or the run over.
C10_CallsPerAction ==
    [][ (Len(calls') # Len(calls) /\ last'.site = "menu") =>
            /\ pc = "call"
            /\ pc' \in {"choice", "done"}
            /\ calls' = calls \o LastCalls'
            /\ last'.op # "get_symbol_info" => Len(LastCalls') = 1
            /\ last'.op = "get_symbol_info" =>
                   /\ NamesOf(LastCalls') \in
                          {<<"futures_symbol_ticker">>,
                           <<"futures_symbol_ticker", "futures_exchange_info">>}
                   /\ Len(LastCalls') = 2 <=> LastCalls'[1].reply.kind = "ok"
            /\ \A i \in 1..Len(LastCalls') :
                   /\ LastCalls'[i].reply.kind \in {"ok", "raise"}
                   /\ LastCalls'[i].reply.kind = "raise" => i = Len(LastCalls')
      ]_vars

C10_Witness ==
    /\ last.site = "menu"
    /\ last.op = "get_symbol_info"
    /\ Len(LastCalls) = 2
    /\ LastCalls[2].reply.kind = "raise"
    /\ pc = "choice"

\* C11: in every order placement the log is ordered around the client call: the
\* request entry is written before futures_create_order is issued; the response
\* entry and then the order-execution entry, both for what the call gave back,
\* are written only after it returned, in that order; when the call raised,
\* neither a response entry nor an order-execution entry is written.
C11_LogOrderedAroundOrderCall ==
    last.op \in OrderOps =>
        /\ Len(LastCalls) = 1
        /\ LET c          == LastCalls[1]
               before     == {i \in 1..Len(LastLog) : i <= c.logged}
               after      == {i \in 1..Len(LastLog) : i > c.logged}
               requests   == Entries(LastLog, "request")
               responses  == Entries(LastLog, "response")
               executions == Entries(LastLog, "execution")
           IN  /\ c.name = "futures_create_order"
               /\ Cardinality(requests) = 1
               /\ requests \subseteq before
               /\ \A i \in requests : LastLog[i].data = c.params
               /\ c.reply.kind = "ok" =>
                      /\ Cardinality(responses) = 1
                      /\ Cardinality(executions) = 1
                      /\ responses \cup executions \subseteq after
                      /\ \A i \in responses : \A j \in executions :
                             /\ i < j
                             /\ LastLog[i].data = c.reply.value
                             /\ LastLog[j].data = c.reply.value
               /\ c.reply.kind = "raise" =>
                      /\ responses = {}
                      /\ executions = {}

C11_Witness ==
    /\ last.op = "place_market_order"
    /\ last.outcome.kind = "return"
    /\ LastCalls[1].logged = 1
    /\ Len(LastLog) = 3
    /\ LastLog[1].kind = "request"
    /\ LastLog[2].kind = "response"
    /\ LastLog[3].kind = "execution"

\* C12: once construction and the startup balance query have succeeded, an error
\* (an Exception) that a facade method raises during the menu action of options 1
\* to 8 does not end the command loop: it is reported on the console, no exit code
\* is set and main is back at the menu prompt. The loop ends only by option 9
\* chosen at the menu prompt, by a keyboard interrupt (at a prompt or during a
\* facade call), or by an error raised outside the per-action handlers: end of
\* input while a prompt is reading.
C12_FacadeErrorsKeepTheLoop ==
    [][ /\ (/\ pc = "call"
            /\ last'.site = "menu"
            /\ last'.outcome.kind = "raise"
            /\ IsException(last'.outcome.exc)) =>
               /\ pc' = "choice"
               /\ console' = "Error"
               /\ exit_code' = <<>>
        /\ (pc \in Prompts \cup {"call"} /\ pc' = "done") =>
               \/ /\ pc = "choice"
                  /\ stdin'.kind = "line"
                  /\ choice' = One("9")
               \/ /\ pc \in Prompts
                  /\ stdin'.kind = "KeyboardInterrupt"
               \/ /\ pc = "call"
                  /\ last'.outcome.kind = "raise"
                  /\ last'.outcome.exc.type = "KeyboardInterrupt"
               \/ /\ pc \in Prompts
                  /\ stdin'.kind = "EOFError"
        /\ (pc \in Prompts \cup {"call"}) =>
               (pc' \in Prompts \cup {"call", "done"})
      ]_vars

C12_Witness ==
    /\ last.site = "menu"
    /\ last.op = "get_symbol_info"
    /\ last.outcome.kind = "raise"
    /\ last.outcome.exc.type = "ValueError"
    /\ pc = "choice"
    /\ console = "Error"
    /\ exit_code = <<>>

====
